---- MODULE Spec2Model ----
(***************************************************************************)
(* The query-and-cache layer of the fraud dashboard (src/app.py): the      *)
(* cached Snowflake connection (init_connection, get_connection), the      *)
(* cached query function (run_query), the Refresh Data button and the      *)
(* Transaction Analysis query builder.                                     *)
(*                                                                         *)
(* Library semantics the model relies on:                                  *)
(*  - st.cache_resource keeps one value for init_connection() process-wide *)
(*    and returns it without running the body until it is cleared;         *)
(*  - st.cache_data(ttl=600) keeps, per argument value, the returned       *)
(*    value with the time it was stored, serves it while younger than the  *)
(*    ttl, and stores the value the body returns after the body returns;   *)
(*  - st.stop() ends the script run with a control exception that is not   *)
(*    an Exception subclass: "except Exception" lets it through, a bare    *)
(*    "except:" catches it;                                                *)
(*  - st.session_state is per session.                                     *)
(***************************************************************************)
EXTENDS Integers, Sequences, FiniteSets, TLC

VARIABLES
    resource,   \* st.cache_resource entry of init_connection(): a handle or NoConn
    conn,       \* conn[s]: st.session_state.snowflake_conn of session s
    alive,      \* the referenced handles whose Snowflake session is open and usable
    cache,      \* st.cache_data entries of run_query: query string -> [val, ts]
    now,        \* wall clock, seconds
    ticks,      \* number of clock steps taken (bounds the clock)
    last,       \* what the step into this state did (NoCall after an environment step)
    cleared     \* queries whose entry a clear removed and that were not requested since

vars == <<resource, conn, alive, cache, now, ticks, last, cleared>>

----------------------------------------------------------------------------
(* Bounds of the model *)

MaxTicks == 2

(* Program constants *)

TTL == 600
SliderStep == 5000
SliderMax == 100000

Sessions == {"s1", "s2"}
NoConn == 0
\* one handle per session slot, one for the resource cache
Handles == 1..(Cardinality(Sessions) + 1)
\* time that can pass before a call: none, or half the ttl
Elapsed == {0, TTL \div 2}

----------------------------------------------------------------------------
(* Results: a DataFrame is modelled by its number of columns and rows. *)

\* pd.DataFrame(): no columns, no rows
EmptyFrame == [columns |-> 0, rows |-> 0]

\* the SELECT list of the Transaction Analysis query
TxnColumns == 9

\* a variant that drops the column names of a result set without rows
FrameWithoutColumnsWhenNoRows(n) ==
    IF n = 0 THEN EmptyFrame ELSE [columns |-> TxnColumns, rows |-> n]

\* pd.DataFrame(data, columns=columns) for a result set of n rows
Frame(n) == [columns |-> TxnColumns, rows |-> n]

\* the row counts the warehouse answers with: no rows, or some
DbRows == {0, 5}

\* df.empty, the test the pages apply to a result: some axis has length 0
DfEmpty(df) == df.columns = 0 \/ df.rows = 0

----------------------------------------------------------------------------
(* Transaction Analysis: the filter widgets and the query string. The SELECT  *)
(* list and the joins of base_query, the same in every query, are elided.    *)

DateRanges == {"last30days", "last7days"}
DefaultDateRange == "last30days"
AlertOptions == {"All", "Flagged Only", "Clean Only"}
\* st.slider(min_value=0, max_value=100000, step=5000)
AmountOptions == {k * SliderStep : k \in 0..(SliderMax \div SliderStep)}

DefaultFilters == [date_range |-> DefaultDateRange, amount |-> 0, alert |-> "All"]

FilterSpecs == [date_range : DateRanges, amount : AmountOptions, alert : AlertOptions]

\* the widget values the sessions of Spec choose from
Selections == {DefaultFilters,
               [date_range |-> DefaultDateRange, amount |-> SliderStep,
                alert |-> "Flagged Only"]}

Digit(d) == CASE d = 0 -> "0" [] d = 1 -> "1" [] d = 2 -> "2" [] d = 3 -> "3"
              [] d = 4 -> "4" [] d = 5 -> "5" [] d = 6 -> "6" [] d = 7 -> "7"
              [] d = 8 -> "8" [] d = 9 -> "9"

\* str.format of a non-negative int: its decimal digits
RECURSIVE FormatInt(_)
FormatInt(n) == IF n < 10 THEN Digit(n) ELSE FormatInt(n \div 10) \o Digit(n % 10)

BaseQueryHead == "SELECT ft.TXN_ID, ... FROM GOLD.FACT_TRANSACTIONS ft JOIN ... WHERE ft.AMOUNT >= "

\* a slip: both non-default options append the same clause
AlertClauseSameForClean(alert_filter) ==
    IF alert_filter = "Flagged Only" THEN " AND ft.HAS_ALERT = TRUE"
    ELSE IF alert_filter = "Clean Only" THEN " AND ft.HAS_ALERT = TRUE"
    ELSE ""

AlertClause(alert_filter) ==
    IF alert_filter = "Flagged Only" THEN " AND ft.HAS_ALERT = TRUE"
    ELSE IF alert_filter = "Clean Only" THEN " AND ft.HAS_ALERT = FALSE"
    ELSE ""

\* base_query.format(amount=amount_filter) after the two "+=": the date_range
\* widget value is read nowhere
TxnQuery(f) ==
    BaseQueryHead \o FormatInt(f.amount) \o "\n    " \o AlertClause(f.alert)
        \o " ORDER BY ft.TXN_TIMESTAMP DESC LIMIT 1000"

----------------------------------------------------------------------------
(* init_connection and get_connection *)

\* the handles some session slot or the resource cache refers to
Referenced(res, slots) == ({res} \cup {slots[s] : s \in Sessions}) \ {NoConn}

\* the object snowflake.connector.connect() returns: one nothing refers to yet
NewHandle(res, slots) == CHOOSE h \in Handles : h \notin Referenced(res, slots)

\* a slip: the except branch does not st.stop(), the function returns None
InitConnectionReturnsNone(res, slots, ok) ==
    IF res # NoConn
    THEN [halt |-> FALSE, handle |-> res, resource |-> res, created |-> FALSE,
          failed |-> FALSE]
    ELSE IF ok
    THEN [halt |-> FALSE, handle |-> NewHandle(res, slots),
          resource |-> NewHandle(res, slots), created |-> TRUE, failed |-> FALSE]
    ELSE [halt |-> FALSE, handle |-> NoConn, resource |-> NoConn, created |-> FALSE,
          failed |-> TRUE]

\* @st.cache_resource init_connection(): the cached handle if there is one,
\* else connect(); ok says whether connect() succeeds. A failed connect()
\* ends in st.stop() and caches nothing.
InitConnection(res, slots, ok) ==
    IF res # NoConn
    THEN [halt |-> FALSE, handle |-> res, resource |-> res, created |-> FALSE,
          failed |-> FALSE]
    ELSE IF ok
    THEN [halt |-> FALSE, handle |-> NewHandle(res, slots),
          resource |-> NewHandle(res, slots), created |-> TRUE, failed |-> FALSE]
    ELSE [halt |-> TRUE, handle |-> NoConn, resource |-> NoConn, created |-> FALSE,
          failed |-> TRUE]

\* cursor().execute("SELECT 1") on handle h
ProbeOk(h, live) == h \in live

\* get_connection() of session s: the values it leaves behind and what it did
GetConnection(s, ok) ==
    LET held  == conn[s]
        first == IF held = NoConn THEN InitConnection(resource, conn, ok)
                 ELSE [halt |-> FALSE, handle |-> held, resource |-> resource,
                       created |-> FALSE, failed |-> FALSE]
        live1 == IF first.created THEN alive \cup {first.handle} ELSE alive
        slots1 == [conn EXCEPT ![s] = first.handle]
    IN  IF first.halt
        THEN [halt |-> TRUE, handle |-> NoConn, slot |-> held, resource |-> resource,
              alive |-> alive, created |-> FALSE, probes |-> 0, probeFailed |-> FALSE,
              connectFailed |-> first.failed]
        ELSE IF ProbeOk(first.handle, live1)
        THEN [halt |-> FALSE, handle |-> first.handle, slot |-> first.handle,
              resource |-> first.resource, alive |-> live1,
              created |-> first.created, probes |-> 1, probeFailed |-> FALSE,
              connectFailed |-> FALSE]
        ELSE LET again == InitConnection(first.resource, slots1, ok)
             IN  IF again.halt
                 THEN [halt |-> TRUE, handle |-> NoConn, slot |-> first.handle,
                       resource |-> first.resource, alive |-> live1,
                       created |-> FALSE, probes |-> 1, probeFailed |-> TRUE,
                       connectFailed |-> again.failed]
                 ELSE [halt |-> FALSE, handle |-> again.handle, slot |-> again.handle,
                       resource |-> again.resource,
                       alive |-> IF again.created
                                 THEN live1 \cup {again.handle} ELSE live1,
                       created |-> again.created, probes |-> 1, probeFailed |-> TRUE,
                       connectFailed |-> again.failed]

NoCall == [op |-> "none", s |-> "-", f |-> DefaultFilters, q |-> "", outcome |-> "-", result |-> EmptyFrame,
           probes |-> 0, execs |-> 0, created |-> FALSE, handle |-> NoConn,
           probeFailed |-> FALSE, connectFailed |-> FALSE, age |-> -1,
           wasCleared |-> FALSE, dropped |-> {}]

\* the sidebar's connection status check: try: get_connection() except: ...
SidebarStatus(s) ==
    \E ok \in BOOLEAN :
      \E g \in {GetConnection(s, ok)} :
        LET slots == [conn EXCEPT ![s] = g.slot]
        IN  /\ conn' = slots
            /\ resource' = g.resource
            /\ alive' = g.alive \cap Referenced(g.resource, slots)
            /\ last' = [op |-> "get_connection", s |-> s, f |-> DefaultFilters, q |-> "",
                        outcome |-> IF g.halt THEN "halted" ELSE "ok",
                        result |-> EmptyFrame, probes |-> g.probes,
                        execs |-> 0, created |-> g.created,
                        handle |-> g.handle, probeFailed |-> g.probeFailed,
                        connectFailed |-> g.connectFailed, age |-> -1,
                        wasCleared |-> FALSE, dropped |-> {}]
            /\ UNCHANGED <<cache, now, ticks, cleared>>

----------------------------------------------------------------------------
(* run_query *)

NoEntries == [q \in {} |-> EmptyFrame]

\* a slip: an entry is still served when it is exactly ttl seconds old
FreshInclusive(c, q, t) == q \in DOMAIN c /\ t - c[q].ts <= TTL

\* st.cache_data(ttl=600): is there an entry for q that is served at time t
Fresh(c, q, t) == q \in DOMAIN c /\ t - c[q].ts < TTL

\* a variant with one slot for the whole function: a store replaces the value
\* of every entry, whatever its key
StoreOverwritesAll(c, q, v, t) ==
    [k \in DOMAIN c \cup {q} |-> [val |-> v, ts |-> IF k = q THEN t ELSE c[k].ts]]

\* a variant that does not cache the empty frame of a failed execution
StoreSkipsEmpty(c, q, v, t) ==
    IF v = EmptyFrame
    THEN [k \in DOMAIN c \ {q} |-> c[k]]
    ELSE [k \in DOMAIN c \cup {q} |-> IF k = q THEN [val |-> v, ts |-> t] ELSE c[k]]

\* a slip: replacing an entry keeps the time the old one was stored
StoreKeepsOldStamp(c, q, v, t) ==
    [k \in DOMAIN c \cup {q} |->
        IF k = q THEN [val |-> v, ts |-> IF q \in DOMAIN c THEN c[q].ts ELSE t]
        ELSE c[k]]

\* the cache with v stored for q at time t
Store(c, q, v, t) ==
    [k \in DOMAIN c \cup {q} |-> IF k = q THEN [val |-> v, ts |-> t] ELSE c[k]]

\* a slip: the clear does nothing
ClearDataNoop(c) == c

\* a slip: the clear evicts a single entry instead of all of them
ClearDataDropsOne(c) ==
    IF DOMAIN c = {} THEN c
    ELSE LET victim == CHOOSE k \in DOMAIN c : TRUE
         IN  [k \in DOMAIN c \ {victim} |-> c[k]]

\* st.cache_data.clear()
ClearData(c) == NoEntries

\* a variant of the failure path that leaves the cached connection in place
ClearResourceKeeps(r) == r

\* st.cache_resource.clear()
ClearResource(r) == NoConn

\* run_query(q) called by session s at time t; f, the widget values q was built
\* from, is only recorded
RunQuery(s, q, t, f) ==
    IF Fresh(cache, q, t)
    THEN /\ last' = [op |-> "run_query", s |-> s, f |-> f, q |-> q, outcome |-> "hit",
                     result |-> cache[q].val, probes |-> 0, execs |-> 0,
                     created |-> FALSE, handle |-> NoConn, probeFailed |-> FALSE,
                     connectFailed |-> FALSE, age |-> t - cache[q].ts,
                     wasCleared |-> q \in cleared, dropped |-> {}]
         /\ cleared' = cleared \ {q}
         /\ UNCHANGED <<resource, conn, alive, cache>>
    ELSE \E ok \in BOOLEAN, sqlOk \in BOOLEAN, n \in DbRows :
      \E g \in {GetConnection(s, ok)} :
        LET slots == [conn EXCEPT ![s] = g.slot]
            call == [op |-> "run_query", s |-> s, f |-> f, q |-> q,
                     probes |-> g.probes, created |-> g.created,
                     handle |-> g.handle, probeFailed |-> g.probeFailed,
                     connectFailed |-> g.connectFailed,
                     age |-> IF q \in DOMAIN cache THEN t - cache[q].ts ELSE -1,
                     wasCleared |-> q \in cleared]
        IN  /\ conn' = slots
            /\ IF g.halt
               THEN \* st.stop() inside init_connection: the script run ends here
                    /\ resource' = g.resource
                    /\ alive' = g.alive \cap Referenced(g.resource, slots)
                    /\ cache' = cache
                    /\ cleared' = cleared \ {q}
                    /\ last' = call @@ [outcome |-> "halted", result |-> EmptyFrame,
                                        execs |-> 0, dropped |-> {}]
               ELSE IF g.handle \in g.alive /\ sqlOk
               THEN \* cursor.execute(query) and fetchall() succeed
                    /\ resource' = g.resource
                    /\ alive' = g.alive \cap Referenced(g.resource, slots)
                    /\ cache' = Store(cache, q, Frame(n), t)
                    /\ cleared' = cleared \ {q}
                    /\ last' = call @@ [outcome |-> "ok", result |-> Frame(n),
                                        execs |-> 1, dropped |-> {}]
               ELSE \* except Exception: clear both caches, return pd.DataFrame()
                    /\ resource' = ClearResource(g.resource)
                    /\ alive' = g.alive \cap Referenced(ClearResource(g.resource), slots)
                    /\ cache' = Store(ClearData(cache), q, EmptyFrame, t)
                    /\ cleared' = (cleared \cup DOMAIN cache) \ {q}
                    /\ last' = call @@ [outcome |-> "failed", result |-> EmptyFrame,
                                        execs |-> 1, dropped |-> DOMAIN cache \ {q}]

\* the Transaction Analysis page of session s rendered with widget values f,
\* d seconds after the previous event
TransactionAnalysis(s, f, d) ==
    /\ d > 0 => ticks < MaxTicks
    /\ now' = now + d
    /\ ticks' = IF d > 0 THEN ticks + 1 ELSE ticks
    /\ \E q \in {TxnQuery(f)} : RunQuery(s, q, now + d, f)

\* a variant of the button that clears the cached connection as well
RefreshDataClearsConnection(s) ==
    /\ cache' = ClearData(cache)
    /\ cleared' = cleared \cup DOMAIN cache
    /\ resource' = ClearResource(resource)
    /\ alive' = alive \cap Referenced(ClearResource(resource), conn)
    /\ last' = [NoCall EXCEPT !.op = "refresh", !.s = s, !.dropped = DOMAIN cache]
    /\ UNCHANGED <<conn, now, ticks>>

\* the Refresh Data button
RefreshData(s) ==
    /\ cache' = ClearData(cache)
    /\ cleared' = cleared \cup DOMAIN cache
    /\ last' = [NoCall EXCEPT !.op = "refresh", !.s = s, !.dropped = DOMAIN cache]
    /\ UNCHANGED <<resource, conn, alive, now, ticks>>

----------------------------------------------------------------------------
(* Environment *)

\* a Snowflake session is closed by the server or the network
ConnDies(h) ==
    /\ h \in alive
    /\ alive' = alive \ {h}
    /\ last' = NoCall
    /\ UNCHANGED <<resource, conn, cache, now, ticks, cleared>>

\* a browser session ends and a new one starts with an empty session_state
NewSession(s) ==
    /\ conn[s] # NoConn
    /\ conn' = [conn EXCEPT ![s] = NoConn]
    /\ alive' = alive \cap Referenced(resource, [conn EXCEPT ![s] = NoConn])
    /\ last' = NoCall
    /\ UNCHANGED <<resource, cache, now, ticks, cleared>>

----------------------------------------------------------------------------

Init ==
    /\ resource = NoConn
    /\ conn = [s \in Sessions |-> NoConn]
    /\ alive = {}
    /\ cache = NoEntries
    /\ now = 0
    /\ ticks = 0
    /\ last = NoCall
    /\ cleared = {}

Next ==
    \/ \E s \in Sessions : SidebarStatus(s)
    \/ \E s \in Sessions, f \in Selections, d \in Elapsed : TransactionAnalysis(s, f, d)
    \/ \E s \in Sessions : RefreshData(s)
    \/ \E s \in Sessions : NewSession(s)
    \/ \E h \in Handles : ConnDies(h)

Spec == Init /\ [][Next]_vars

----------------------------------------------------------------------------
(* The query builder alone: a render of the Transaction Analysis filters   *)
(* and the query string built from them, over every value the widgets      *)
(* offer.                                                                  *)

BuildTxnQuery(s, f) ==
    /\ last' = [NoCall EXCEPT !.op = "build", !.s = s, !.f = f, !.q = TxnQuery(f)]
    /\ UNCHANGED <<resource, conn, alive, cache, now, ticks, cleared>>

NextBuild == \E s \in Sessions, f \in FilterSpecs : BuildTxnQuery(s, f)

SpecBuild == Init /\ [][NextBuild]_vars

----------------------------------------------------------------------------
(* Properties. A step whose last' is a run_query record is a call of       *)
(* run_query by session last'.s for the query string last'.q at time now'; *)
(* the unprimed variables are the state the call found.                    *)

IsRunQuery(c) == c.op = "run_query"
Returned(c) == c.outcome \in {"hit", "ok", "failed"}

\* the call was served from the cache: nothing was probed, executed or changed
ServedFromCache ==
    /\ last'.outcome = "hit"
    /\ last'.result = cache[last'.q].val
    /\ last'.probes = 0
    /\ last'.execs = 0
    /\ cache' = cache

\* the call ran the body of run_query: it sent the query to the connection it
\* got, unless no connection could be created and the script run was halted
RanBody ==
    /\ last'.outcome \in {"ok", "failed", "halted"}
    /\ last'.outcome = "halted" => last'.connectFailed /\ last'.execs = 0
    /\ last'.outcome # "halted" => last'.execs = 1 /\ last'.handle # NoConn

(* C1, as claimed: a call of run_query(Q) less than 600 seconds after the  *)
(* previous call of run_query(Q), with nothing in between, returns what    *)
(* the previous call returned, without a probe or an execution.            *)
C1_AsClaimed ==
    [][(/\ IsRunQuery(last) /\ Returned(last)
        /\ IsRunQuery(last') /\ last'.q = last.q
        /\ now' - now < 600)
       => (/\ last'.result = last.result
           /\ last'.probes = 0
           /\ last'.execs = 0)]_vars

(* C1, amended: a call of run_query(Q) that returns after running the body *)
(* leaves Q's entry holding what it returned, stamped with the time of the *)
(* call; and a call of run_query(Q) less than 600 seconds after the stamp  *)
(* of the entry it finds (no clear since: the entry is still there)        *)
(* returns the entry's value without a probe or an execution.              *)
C1_HitWithinTtlOfStore ==
    [][IsRunQuery(last') =>
        /\ last'.outcome \in {"ok", "failed"}
             => /\ last'.q \in DOMAIN cache'
                /\ cache'[last'.q] = [val |-> last'.result, ts |-> now']
        /\ (last'.q \in DOMAIN cache /\ now' - cache[last'.q].ts < 600)
             => ServedFromCache]_vars

\* a call was served an entry stored earlier
C1_Witness ==
    /\ IsRunQuery(last) /\ last.outcome = "hit"
    /\ last.age > 0 /\ last.age < 600
    /\ last.result = cache[last.q].val

(* C2: when the execution of Q fails inside run_query, the call returns    *)
(* the frame with no columns and no rows, and every entry that was cached  *)
(* for another query is gone: the next run_query for such a query runs the *)
(* body again.                                                             *)
C2_FailureReturnsEmptyAndClears ==
    [][IsRunQuery(last') =>
        /\ last'.outcome = "failed"
             => /\ last'.result = [columns |-> 0, rows |-> 0]
                /\ last'.dropped = DOMAIN cache \ {last'.q}
                /\ \A k \in DOMAIN cache \ {last'.q} :
                       k \notin DOMAIN cache' /\ k \in cleared'
        /\ last'.q \in cleared => RanBody]_vars

\* a failed call that removed another query's entry
C2_Witness ==
    /\ IsRunQuery(last) /\ last.outcome = "failed"
    /\ last.result = [columns |-> 0, rows |-> 0]
    /\ last.dropped # {}

(* C4: after a clear (the Refresh Data button, or a failed execution), the *)
(* next run_query(Q) for every Q that had an entry before the clear runs   *)
(* the body again rather than returning the old entry. (The query whose    *)
(* execution failed is not among them: its call was a miss.)               *)
C4_MissAfterClear ==
    [][/\ last'.op = "refresh" => cleared' = cleared \cup DOMAIN cache
       /\ (IsRunQuery(last') /\ last'.outcome = "failed")
            => cleared' = (cleared \cup DOMAIN cache) \ {last'.q}
       /\ (IsRunQuery(last') /\ last'.q \in cleared)
            => RanBody /\ last'.age = -1]_vars

\* a query whose entry a clear removed was executed again
C4_Witness ==
    /\ IsRunQuery(last) /\ last.wasCleared
    /\ last.outcome = "ok"

(* C5: run_query(Q) serves Q's entry if and only if the entry is less than *)
(* 600 seconds old; at 600 seconds or more the call runs the body again,   *)
(* even though the entry was never cleared.                                *)
C5_ServedIffYoungerThanTtl ==
    [][IsRunQuery(last') =>
        LET q == last'.q
            young == q \in DOMAIN cache /\ now' - cache[q].ts < 600
        IN  /\ young => ServedFromCache
            /\ ~young => RanBody
            /\ last'.outcome = "hit" <=> young]_vars

\* an entry exactly 600 seconds old was not served: the query ran again
C5_Witness ==
    /\ IsRunQuery(last) /\ last.age = 600
    /\ last.execs = 1 /\ ~last.wasCleared

(* C3, as claimed: whenever the liveness probe fails, get_connection        *)
(* returns a newly created handle, different from the one the session held *)
(* before the call, and it halts only if creating the replacement fails.   *)
C3_AsClaimed ==
    [][(last'.op \in {"get_connection", "run_query"} /\ last'.probeFailed)
       => \/ last'.outcome = "halted" /\ last'.connectFailed
          \/ /\ last'.outcome # "halted"
             /\ last'.created
             /\ last'.handle # conn[last'.s]]_vars

(* C6, as claimed: at most one live connection handle is held at a time    *)
(* across the resource cache and all sessions' snowflake_conn slots.       *)
C6_AsClaimed ==
    Cardinality({h \in Handles :
                    /\ h \in alive
                    /\ h = resource \/ \E s \in Sessions : conn[s] = h}) <= 1

(* C7, as claimed: after a failed run_query returns, the session no longer *)
(* holds the handle the failed execution used, and the session's next      *)
(* get_connection creates a fresh connection instead of reusing it.        *)
C7_AsClaimed ==
    [][/\ (IsRunQuery(last') /\ last'.outcome = "failed")
            => conn'[last'.s] # last'.handle
       /\ (/\ IsRunQuery(last) /\ last.outcome = "failed"
           /\ last'.op = "get_connection" /\ last'.s = last.s
           /\ last'.outcome = "ok")
            => last'.created /\ last'.handle # last.handle]_vars

(* C8: when creating a connection fails while run_query(Q) computes a      *)
(* miss, the script run is halted: nothing is returned, no entry is stored *)
(* for Q, neither cache is cleared, and no cached or stale value stands in *)
(* for the result.                                                         *)
C8_ConnectFailureHalts ==
    [][(IsRunQuery(last') /\ last'.connectFailed)
       => /\ last'.outcome = "halted"
          /\ ~Returned(last')
          /\ last'.execs = 0
          /\ cache' = cache
          /\ resource' = resource
          /\ last'.dropped = {}]_vars

\* a connection could not be created for a query whose entry had expired
C8_Witness ==
    /\ IsRunQuery(last) /\ last.connectFailed
    /\ last.age >= 600
    /\ last.q \in DOMAIN cache

(* C9: two selections of (minimum amount, alert status) that differ in     *)
(* either value give different query strings, so different cache keys; two *)
(* selections with the same amount and alert status give the same string.  *)
C9_KeyIsQueryString ==
    [][(last.op = "build" /\ last'.op = "build")
       => /\ (last.f.amount # last'.f.amount \/ last.f.alert # last'.f.alert)
               => last.q # last'.q
          /\ (last.f.amount = last'.f.amount /\ last.f.alert = last'.f.alert)
               => last.q = last'.q]_vars

\* the query for amount 5000, Flagged Only was built, and it is not the
\* query for amount 0, All
C9_Witness ==
    /\ last.op = "build"
    /\ last.f.amount = 5000 /\ last.f.alert = "Flagged Only"
    /\ last.q # TxnQuery([last.f EXCEPT !.amount = 0, !.alert = "All"])

(* C10, as claimed: two selections that differ in the date range, in the   *)
(* minimum amount or in the alert status yield different query strings.    *)
C10_AsClaimed ==
    [][(last.op = "build" /\ last'.op = "build" /\ last.f # last'.f)
       => last.q # last'.q]_vars

(* C11, as claimed: the result of a query that succeeds with zero rows has *)
(* the same columns and rows as the result returned after a failed query.  *)
C11_AsClaimed ==
    (IsRunQuery(last) /\ last.outcome = "ok" /\ last.result.rows = 0)
       => last.result = [columns |-> 0, rows |-> 0]

(* C11, amended: the result of a failed query and the result of a query    *)
(* that succeeds with zero rows both have zero rows and both satisfy       *)
(* df.empty, but the failed one has no columns while the successful one    *)
(* has the columns of the SELECT list, so the two results differ.          *)
C11_BothEmptyColumnsDiffer ==
    IsRunQuery(last) =>
       /\ last.outcome = "failed"
            => /\ last.result = [columns |-> 0, rows |-> 0]
               /\ DfEmpty(last.result)
       /\ last.outcome = "ok"
            => /\ last.result.columns = 9
               /\ last.result.rows = 0 => DfEmpty(last.result)
               /\ last.result # [columns |-> 0, rows |-> 0]

\* a query was executed, succeeded and gave no rows
C11_Witness ==
    /\ IsRunQuery(last)
    /\ last.outcome = "ok" /\ last.execs = 1
    /\ last.result.rows = 0

GotConnection(c) == c.op \in {"get_connection", "run_query"} /\ c.handle # NoConn

(* C14: get_connection() returns a dead handle only while that handle is   *)
(* the cached result of init_connection; a run_query miss that executes on *)
(* a dead handle fails and empties the connection cache; a dead handle a   *)
(* session still holds is never cached again, so no second miss can fail   *)
(* on it; and the next get_connection() of the session whose miss failed   *)
(* on the dead handle, if connect() succeeds, creates a new handle that is *)
(* alive and puts it in the session's slot.                                *)
C14_DeadHandleFailsOnce ==
    [][/\ (GotConnection(last') /\ last'.handle \notin alive')
            => /\ resource = last'.handle
               /\ last'.probeFailed /\ ~last'.created
       /\ (IsRunQuery(last') /\ last'.execs = 1 /\ last'.handle \notin alive')
            => /\ last'.outcome = "failed"
               /\ resource' = NoConn
       /\ \A h \in Handles :
            (/\ h \notin alive /\ resource # h
             /\ \E s \in Sessions : conn[s] = h)
               => resource' # h
       /\ (/\ IsRunQuery(last) /\ last.outcome = "failed"
           /\ last.handle \notin alive
           /\ GotConnection(last') /\ last'.s = last.s)
            => /\ last'.probeFailed /\ last'.created
               /\ last'.handle # last.handle
               /\ last'.handle \in alive'
               /\ conn'[last'.s] = last'.handle
               /\ IsRunQuery(last') => last'.outcome \in {"ok", "failed"}]_vars

\* after a failure left the empty frame cached, a session whose handle was
\* dead got a new one and ran another query on it
C14_Witness ==
    /\ IsRunQuery(last) /\ last.outcome = "ok"
    /\ last.probeFailed /\ last.created
    /\ last.handle \in alive /\ conn[last.s] = last.handle
    /\ \E k \in DOMAIN cache : k # last.q /\ cache[k].val = EmptyFrame

(* C15: the Refresh Data button removes every entry of the query cache and *)
(* leaves the session slots, the cached connection and the connections'    *)
(* liveness as they were; the cached connection is emptied only by a       *)
(* run_query call whose execution failed.                                  *)
C15_RefreshKeepsConnection ==
    [][/\ last'.op = "refresh"
            => /\ DOMAIN cache' = {}
               /\ last'.dropped = DOMAIN cache
               /\ conn' = conn
               /\ resource' = resource
               /\ alive' = alive
       /\ (resource # NoConn /\ resource' = NoConn)
            => IsRunQuery(last') /\ last'.outcome = "failed"]_vars

\* a refresh dropped entries while a live connection was cached and held
C15_Witness ==
    /\ last.op = "refresh"
    /\ last.dropped # {}
    /\ cache = NoEntries
    /\ resource # NoConn /\ resource \in alive
    /\ conn[last.s] = resource

====
